---- MODULE Spec2Model ----
(***************************************************************************)
(* Model of the pipeline health simulator: the per-stage tick engine       *)
(* (pipeline/simulation.py), the stage chain (pipeline/pipeline_chain.py), *)
(* the data model and percentile utility (pipeline/models.py), the event   *)
(* logger (pipeline/event_logger.py) and the live loop with its table      *)
(* (run_live_simulation.py).                                               *)
(*                                                                         *)
(* SignalEvent objects live in the heap `events`; queues, buffers and      *)
(* argument lists hold references (indices into the heap), so that the     *)
(* same object can be reached from several places, as in Python.           *)
(* slowdown_factor is a float in the source; the model keeps it as an      *)
(* exact fraction [num, den], so capacity / slowdown is exact and int()    *)
(* is integer division.  Latencies are drawn on an integer grid.           *)
(***************************************************************************)
EXTENDS Integers, Sequences, FiniteSets, TLC

VARIABLES
    stages,        \* the Stage objects in use (StageChain.stages, or the
                   \* stage(s) a driver passes to run_single_tick)
    current_tick,  \* StageChain.current_tick
    events,        \* heap of SignalEvent objects, indexed by reference
    LOG_EVENTS,    \* event_logger.LOG_EVENTS, the process-wide flag
    logfile,       \* records written by logger.info, in order
    call,          \* what the last operation was given and observed
    admitted,      \* references passed to successful StageChain.tick calls
    first_tick,    \* per event: chain tick of its first successful admission
    completed,     \* references drained by the last stage of the chain
    samples,       \* the caller's list passed to compute_percentile
    pctl,          \* the percentile argument, as an exact fraction
    result,        \* what compute_percentile returned
    last_store_processed,  \* pipeline._last_store_processed (-1: not set)
    table          \* the SLO rows render_tick_table printed last

vars == <<stages, current_tick, events, LOG_EVENTS, logfile, call, admitted,
          first_tick, completed, samples, pctl, result, last_store_processed,
          table>>

(***************************************************************************)
(* Bounds of the model.                                                    *)
(***************************************************************************)
MaxTicks == 3       \* ticks per run
MaxEvents == 3      \* SignalEvent objects ever created
MaxIncoming == 2    \* length of one incoming list
MaxCapacity == 2    \* capacity_per_tick of a stage under direct test
MaxLen == 3         \* length of a sample list given to compute_percentile
MaxVal == 2         \* sample values are 0..MaxVal

(***************************************************************************)
(* Generic helpers.                                                        *)
(***************************************************************************)
Min(a, b) == IF a <= b THEN a ELSE b

Max(a, b) == IF a >= b THEN a ELSE b

Range(s) == {s[k] : k \in 1..Len(s)}

SeqsUpTo(S, n) == UNION {[1..k -> S] : k \in 0..n}

Count(s, x) == Cardinality({k \in 1..Len(s) : s[k] = x})

(***************************************************************************)
(* models.py: the known signal types, SignalEvent, StageMetrics, Stage.    *)
(***************************************************************************)
SIGNAL_TYPE_DESCRIPTIONS == {"sales_activity", "field_interaction", "market_signal"}

\* signal types the drivers create events with; "invalid_signal" is what
\* run_simulator.py writes into an event to test the guardrail
InputTypes == {"sales_activity", "invalid_signal"}

SignalEvent(signal_type) == [signal_type |-> signal_type, ingestion_tick |-> 0]

StageMetrics ==
    [processed |-> 0, latencies_ms |-> <<>>, queue_depths |-> <<>>,
     errors |-> 0, e2e_processing_times |-> <<>>]

One == [num |-> 1, den |-> 1]

Stage(name, capacity_per_tick, base_latency_ms, jitter_ms) ==
    [name |-> name, capacity_per_tick |-> capacity_per_tick,
     base_latency_ms |-> base_latency_ms, jitter_ms |-> jitter_ms,
     queue |-> <<>>, metrics |-> StageMetrics, slowdown_factor |-> One,
     output_buffer |-> <<>>]

\* an enqueue at the front of the queue
enqueue_front(stage, e) == [stage EXCEPT !.queue = <<e>> \o @]

\* Stage.enqueue
enqueue(stage, e) == [stage EXCEPT !.queue = Append(@, e)]

\* Stage.record_queue_depth
record_queue_depth(stage) ==
    [stage EXCEPT !.metrics.queue_depths = Append(@, Len(stage.queue))]

\* StageMetrics.record_latency
record_latency(stage, latency_ms) ==
    [stage EXCEPT !.metrics.latencies_ms = Append(@, latency_ms)]

\* StageMetrics.record_e2e_processing_time
record_e2e_processing_time(stage, ticks) ==
    [stage EXCEPT !.metrics.e2e_processing_times = Append(@, ticks)]

\* the slowdown factors scenario control sets: 1.0, 1.5, 2.5
Slowdowns == {One, [num |-> 3, den |-> 2], [num |-> 5, den |-> 2]}

\* the percentile arguments the callers use (0.5, 0.95, 0.99) and the ends
\* and quarters of [0, 1]
Percentiles ==
    {[num |-> 0, den |-> 1], [num |-> 1, den |-> 4], [num |-> 1, den |-> 2],
     [num |-> 3, den |-> 4], [num |-> 95, den |-> 100], [num |-> 99, den |-> 100],
     One}

\* sorted(values): ascending
RECURSIVE Insert(_, _)
Insert(x, s) ==
    IF s = <<>> THEN <<x>>
    ELSE IF x <= Head(s) THEN <<x>> \o s
    ELSE <<Head(s)>> \o Insert(x, Tail(s))

RECURSIVE sorted(_)
sorted(values) ==
    IF values = <<>> THEN <<>> ELSE Insert(Head(values), sorted(Tail(values)))

\* line 120: int(len(values) * percentile)
PercentileIndex(n, percentile) == (n * percentile.num) \div percentile.den

\* values.sort() in place of sorted(values): the caller's list is sorted too
compute_percentile_in_place(values, percentile) ==
    IF values = <<>> THEN [result |-> 0, values |-> values]
    ELSE LET local == sorted(values)
             idx   == Min(PercentileIndex(Len(local), percentile), Len(local) - 1)
         IN  [result |-> local[idx + 1], values |-> local]

\* compute_percentile(values, percentile): the value returned, and the
\* caller's list as the call leaves it
compute_percentile(values, percentile) ==
    IF values = <<>> THEN [result |-> 0, values |-> values]
    ELSE LET local == sorted(values)
             idx   == Min(PercentileIndex(Len(local), percentile), Len(local) - 1)
         IN  [result |-> local[idx + 1], values |-> values]

(***************************************************************************)
(* event_logger.py: the flag and the two per-event notifications.  Each    *)
(* returns the records it adds to the log file.                            *)
(***************************************************************************)
\* set_event_logging: the value LOG_EVENTS has after the call
set_event_logging(enabled) == enabled

log_event_enqueued(flag, stage, e) ==
    IF ~flag THEN <<>> ELSE << <<"enqueued", stage.name, e>> >>

log_event_processed(flag, stage, e) ==
    IF ~flag THEN <<>> ELSE << <<"processed", stage.name, e>> >>

(***************************************************************************)
(* simulation.py: run_single_tick, one piece per statement.                *)
(***************************************************************************)
\* a check that looks at the first incoming event only
DomainSaneFirst(incoming, heap) ==
    incoming = <<>> \/ heap[incoming[1]].signal_type \in SIGNAL_TYPE_DESCRIPTIONS

\* lines 56-59: the assert of the domain-sanity loop holds for every event
DomainSane(incoming, heap) ==
    \A k \in 1..Len(incoming) :
        heap[incoming[k]].signal_type \in SIGNAL_TYPE_DESCRIPTIONS

\* lines 62-64: enqueue every incoming event, logging each
RECURSIVE EnqueueAll(_, _, _, _)
EnqueueAll(stage, incoming, flag, logs) ==
    IF incoming = <<>> THEN [stage |-> stage, logs |-> logs]
    ELSE EnqueueAll(enqueue(stage, Head(incoming)), Tail(incoming), flag,
                    logs \o log_event_enqueued(flag, stage, Head(incoming)))

\* line 68: int(stage.capacity_per_tick / stage.slowdown_factor)
effective_capacity(stage) ==
    (stage.capacity_per_tick * stage.slowdown_factor.den)
        \div stage.slowdown_factor.num

\* a loop condition that is off by one
DrainGuardOffByOne(stage, processed, eff) ==
    stage.queue # <<>> /\ processed <= eff

\* a loop condition that stops one event early
DrainGuardEarly(stage, processed, eff) ==
    stage.queue # <<>> /\ processed + 1 < eff

\* line 74: the condition of the drain loop
DrainGuard(stage, processed, eff) == stage.queue # <<>> /\ processed < eff

\* lines 78-84: max(0.0, random.uniform(base - jitter, base + jitter)); the
\* value random.uniform returned for the k-th drained event is draws[k]
UniformRange(stage) ==
    (stage.base_latency_ms - stage.jitter_ms)..(stage.base_latency_ms + stage.jitter_ms)

\* a latency without the max(0.0, ...)
LatencyUnclamped(stage, draws, k) ==
    IF k \in DOMAIN draws THEN draws[k] ELSE stage.base_latency_ms

Latency(stage, draws, k) ==
    Max(0, IF k \in DOMAIN draws THEN draws[k] ELSE stage.base_latency_ms)

\* a test that leaves out the stage name
RecordsE2EAnyStage(stage, ev, tick) == ev.ingestion_tick > 0 /\ tick > 0

\* line 92: the test that decides whether an end-to-end sample is recorded
RecordsE2E(stage, ev, tick) ==
    stage.name = "store" /\ ev.ingestion_tick > 0 /\ tick > 0

\* an iteration that does not publish the drained event
DrainOneDrop(stage, processed, draws, heap, tick) ==
    LET s1 == [stage EXCEPT !.queue = Tail(@)]
    IN  record_latency(s1, Latency(stage, draws, processed + 1))

\* an iteration that reads the front of the queue without removing it
DrainOnePeek(stage, processed, draws, heap, tick) ==
    LET e  == Head(stage.queue)
        s2 == record_latency(stage, Latency(stage, draws, processed + 1))
    IN  [s2 EXCEPT !.output_buffer = Append(@, e)]

\* lines 75-98: one iteration of the drain loop
DrainOne(stage, processed, draws, heap, tick) ==
    LET e  == Head(stage.queue)
        s1 == [stage EXCEPT !.queue = Tail(@)]
        s2 == record_latency(s1, Latency(stage, draws, processed + 1))
        s3 == [s2 EXCEPT !.output_buffer = Append(@, e)]
    IN  IF RecordsE2E(stage, heap[e], tick)
        THEN record_e2e_processing_time(s3, tick - heap[e].ingestion_tick)
        ELSE s3

\* a loop that records a drained event only while event logging is enabled
RECURSIVE DrainLoopQuiet(_, _, _, _, _, _, _, _)
DrainLoopQuiet(stage, processed, eff, draws, heap, tick, flag, logs) ==
    IF ~DrainGuard(stage, processed, eff)
    THEN [stage |-> stage, processed |-> processed, logs |-> logs]
    ELSE DrainLoopQuiet(IF flag THEN DrainOne(stage, processed, draws, heap, tick)
                        ELSE [stage EXCEPT !.queue = Tail(@)],
                        processed + 1, eff, draws, heap, tick, flag,
                        logs \o log_event_processed(flag, stage, Head(stage.queue)))

\* lines 73-98: the drain loop
RECURSIVE DrainLoop(_, _, _, _, _, _, _, _)
DrainLoop(stage, processed, eff, draws, heap, tick, flag, logs) ==
    IF ~DrainGuard(stage, processed, eff)
    THEN [stage |-> stage, processed |-> processed, logs |-> logs]
    ELSE DrainLoop(DrainOne(stage, processed, draws, heap, tick),
                   processed + 1, eff, draws, heap, tick, flag,
                   logs \o log_event_processed(flag, stage, Head(stage.queue)))

\* an assignment in place of the increment
AddProcessedAssign(stage, processed) ==
    [stage EXCEPT !.metrics.processed = processed]

\* line 106: stage.metrics.processed += processed
AddProcessed(stage, processed) ==
    [stage EXCEPT !.metrics.processed = @ + processed]

\* a check without the max(0, ...): expected_remaining may be negative
QueueCheckNoFloor(stage, incoming) ==
    Len(stage.queue) = Len(incoming) - stage.capacity_per_tick

\* lines 109-116: the queue check passes
QueueCheck(stage, incoming) ==
    Len(stage.queue) = Max(0, Len(incoming) - stage.capacity_per_tick)

\* what a call of run_single_tick leaves: the stage, the assertion raised (if
\* any), the local `processed`, the queue length after admission, the
\* effective capacity, the log records written and LOG_EVENTS
Outcome(stage, raised, dr, eff, depth, flag) ==
    [stage |-> stage, raised |-> raised, processed |-> dr.processed,
     depth |-> depth, eff |-> eff, logs |-> dr.logs, flag |-> flag]

\* lines 108-116: the queue check on the stage with its count updated
AfterCount(s3, dr, eff, depth, incoming, flag, enforce) ==
    Outcome(s3,
            IF enforce /\ ~QueueCheck(s3, incoming)
            THEN "Queue size mismatch" ELSE "",
            dr, eff, depth, flag)

\* lines 100-106: the capacity assertion, then the count
AfterDrain(dr, eff, depth, incoming, flag, enforce) ==
    IF ~(dr.processed <= eff)
    THEN Outcome(dr.stage, "exceeding effective capacity", dr, eff, depth, flag)
    ELSE AfterCount(AddProcessed(dr.stage, dr.processed), dr, eff, depth,
                    incoming, flag, enforce)

\* a drain that does not clear the output buffer first
AfterDepthNoClear(s1, logs, incoming, flag, enforce, tick, draws, heap) ==
    AfterDrain(DrainLoop(s1, 0, effective_capacity(s1), draws, heap, tick,
                         flag, logs),
               effective_capacity(s1), Len(s1.queue), incoming, flag, enforce)

\* lines 68-98, on the stage with its queue depth recorded: the effective
\* capacity, the cleared output buffer and the drain loop
AfterDepth(s1, logs, incoming, flag, enforce, tick, draws, heap) ==
    AfterDrain(DrainLoop([s1 EXCEPT !.output_buffer = <<>>], 0,
                         effective_capacity(s1), draws, heap, tick, flag, logs),
               effective_capacity(s1), Len(s1.queue), incoming, flag, enforce)

\* line 66, on the stage with the incoming events enqueued
AfterEnqueue(enq, incoming, flag, enforce, tick, draws, heap) ==
    AfterDepth(record_queue_depth(enq.stage), enq.logs, incoming, flag,
               enforce, tick, draws, heap)

\* run_single_tick(stage, incoming_events, log_events=, enforce_queue_invariant=,
\* current_tick=), with the draws random.uniform returns and the heap of events
run_single_tick(stage, incoming, log_events, enforce, tick, draws, heap) ==
    IF ~DomainSane(incoming, heap)
    THEN [stage |-> stage, raised |-> "Unknown signal type", processed |-> 0,
          depth |-> Len(stage.queue), eff |-> 0, logs |-> <<>>,
          flag |-> set_event_logging(log_events)]
    ELSE AfterEnqueue(EnqueueAll(stage, incoming,
                                 set_event_logging(log_events), <<>>),
                      incoming, set_event_logging(log_events), enforce, tick,
                      draws, heap)

\* how many times the call draws from random.uniform
DrawCount(stage, incoming, heap) ==
    run_single_tick(stage, incoming, FALSE, FALSE, 0, <<>>, heap).processed

DrawChoices(stage, incoming, heap) ==
    [1..DrawCount(stage, incoming, heap) -> UniformRange(stage)]

(***************************************************************************)
(* pipeline_chain.py: StageChain.tick.                                     *)
(***************************************************************************)
\* lines 25-26: the ingestion_tick an incoming event has after the stamping loop
Stamped(ev, tick) == [ev EXCEPT !.ingestion_tick = tick]

StampAll(heap, incoming, tick) ==
    [k \in DOMAIN heap |->
        IF k \in Range(incoming) THEN Stamped(heap[k], tick) ELSE heap[k]]

\* line 29: [stage.output_buffer.copy() for stage in self.stages]
PrevTickOutputs(stgs) == [i \in 1..Len(stgs) |-> stgs[i].output_buffer]

\* no hand-off: the next stage is given nothing
NextInputsNone(i, stgs, prev_tick_outputs) == <<>>

\* a hand-off within the same tick: the next stage is given what stage i has
\* just drained
NextInputsSameTick(i, stgs, prev_tick_outputs) ==
    IF i + 1 <= Len(stgs) THEN stgs[i].output_buffer ELSE <<>>

\* a retry loop: the next stage is also given what the stage after it drained
NextInputsFeedback(i, stgs, prev_tick_outputs) ==
    IF i + 1 <= Len(stgs)
    THEN prev_tick_outputs[i]
         \o (IF i + 2 <= Len(stgs) THEN prev_tick_outputs[i + 2] ELSE <<>>)
    ELSE <<>>

\* lines 46-50: the input of the stage after stage i
NextInputs(i, stgs, prev_tick_outputs) ==
    IF i + 1 <= Len(stgs) THEN prev_tick_outputs[i] ELSE <<>>

\* what run_single_tick on one stage of the chain was given and observed
RunRecord(stage, stage_inputs, r) ==
    [inputs |-> stage_inputs, processed |-> r.processed, depth |-> r.depth,
     eff |-> r.eff, before |-> Len(stage.queue)]

\* lines 34-50: the loop over the stages, from stage i on; an assertion raised
\* by run_single_tick ends it.  acc collects the record of each stage visited.
RECURSIVE ChainLoop(_, _, _, _, _, _, _, _)
RECURSIVE ChainStep(_, _, _, _, _, _, _, _, _)
ChainStep(i, stgs, stage_inputs, prev_tick_outputs, tick, draws, heap, acc, r) ==
    IF r.raised # ""
    THEN [stages |-> [stgs EXCEPT ![i] = r.stage], raised |-> r.raised,
          runs |-> Append(acc, RunRecord(stgs[i], stage_inputs, r))]
    ELSE ChainLoop(i + 1, [stgs EXCEPT ![i] = r.stage],
                   NextInputs(i, [stgs EXCEPT ![i] = r.stage], prev_tick_outputs),
                   prev_tick_outputs, tick, draws, heap,
                   Append(acc, RunRecord(stgs[i], stage_inputs, r)))

ChainLoop(i, stgs, stage_inputs, prev_tick_outputs, tick, draws, heap, acc) ==
    IF i > Len(stgs) THEN [stages |-> stgs, raised |-> "", runs |-> acc]
    ELSE ChainStep(i, stgs, stage_inputs, prev_tick_outputs, tick, draws, heap,
                   acc,
                   run_single_tick(stgs[i], stage_inputs, FALSE, FALSE, tick,
                                   draws[i], heap))

\* the chain and the heap as a tick leaves them
ChainOutcome(loop, tick, heap) ==
    [stages |-> loop.stages, current_tick |-> tick, events |-> heap,
     raised |-> loop.raised, runs |-> loop.runs]

\* lines 24-50, with the counter already advanced to tick
ChainStamped(stgs, tick, incoming, draws, heap) ==
    ChainOutcome(ChainLoop(1, stgs, incoming, PrevTickOutputs(stgs), tick,
                           draws, heap, <<>>),
                 tick, heap)

\* StageChain.tick(incoming_events)
ChainTick(stgs, tick0, incoming, draws, heap0) ==
    ChainStamped(stgs, tick0 + 1, incoming, draws,
                 StampAll(heap0, incoming, tick0 + 1))

\* the input each stage is given in the coming tick (fixed before any stage runs)
ChainInputs(stgs, incoming) ==
    [i \in 1..Len(stgs) |-> IF i = 1 THEN incoming ELSE stgs[i - 1].output_buffer]

\* the draws of one chain tick: for each stage, one draw per event it drains
RECURSIVE ChainDraws(_, _, _, _)
ChainDraws(n, stgs, incoming, heap) ==
    IF n = 0 THEN {<<>>}
    ELSE {Append(d, x) :
            d \in ChainDraws(n - 1, stgs, incoming, heap),
            x \in DrawChoices(stgs[n], ChainInputs(stgs, incoming)[n], heap)}

(***************************************************************************)
(* The callers: generate_events and the lists the drivers build.           *)
(***************************************************************************)
\* one element of an incoming list: a fresh event of generate_events (id 0),
\* or an event object created earlier
NewItems == {[id |-> 0, signal_type |-> t] : t \in InputTypes}

OldItems(heap) ==
    {[id |-> k, signal_type |-> heap[k].signal_type] : k \in 1..Len(heap)}

Fresh(items) == Cardinality({k \in 1..Len(items) : items[k].id = 0})

\* the lists a driver passes: fresh events of generate_events, or (again) one
\* event object it created before
IncomingLists(heap, again) ==
    {items \in SeqsUpTo(NewItems, MaxIncoming) :
        Len(heap) + Fresh(items) <= MaxEvents}
    \cup (IF again THEN {<<x>> : x \in OldItems(heap)} ELSE {})

\* the heap with the fresh events of the list created, and the list as references
RECURSIVE Materialize(_, _, _)
Materialize(items, heap, refs) ==
    IF items = <<>> THEN [heap |-> heap, refs |-> refs]
    ELSE IF Head(items).id = 0
    THEN Materialize(Tail(items),
                     Append(heap, SignalEvent(Head(items).signal_type)),
                     Append(refs, Len(heap) + 1))
    ELSE Materialize(Tail(items), heap, Append(refs, Head(items).id))

NoCall ==
    [op |-> "none", incoming |-> <<>>, raised |-> "", runs |-> <<>>,
     log_events |-> FALSE, enforce |-> FALSE, tick |-> 0]

\* nothing printed yet
NoTable == [e2e |-> "", throughput |-> ""]

CanTick ==
    /\ current_tick < MaxTicks
    /\ Len(stages[1].metrics.queue_depths) < MaxTicks

(***************************************************************************)
(* The pipeline under StageChain: create_pipeline and other stage lists.   *)
(***************************************************************************)
\* create_pipeline's order with its capacities scaled down (enrich the
\* narrowest), a chain that does not end in "store", and one without "store"
Pipelines ==
    { <<Stage("ingest", 2, 1, 0), Stage("enrich", 1, 0, 1), Stage("store", 2, 1, 0)>>,
      <<Stage("store", 1, 1, 0), Stage("enrich", 2, 1, 0)>>,
      <<Stage("ingest", 2, 1, 0), Stage("normalize", 2, 1, 0)>> }

InitCore ==
    /\ current_tick = 0
    /\ events = <<>>
    /\ LOG_EVENTS = TRUE
    /\ logfile = <<>>
    /\ call = NoCall
    /\ admitted = <<>>
    /\ first_tick = <<>>
    /\ completed = <<>>
    /\ pctl = One
    /\ result = 0
    /\ last_store_processed = -1
    /\ table = NoTable

InitRest ==
    /\ samples = <<>>
    /\ InitCore

Init ==
    /\ stages \in Pipelines
    /\ InitRest

\* pipeline.tick(incoming_events): m is the incoming list with its fresh
\* events created, t what StageChain.tick leaves
TickApply(m, t) ==
    /\ stages' = t.stages
    /\ current_tick' = t.current_tick
    /\ events' = t.events
    /\ call' = [op |-> "tick", incoming |-> m.refs, raised |-> t.raised,
                runs |-> t.runs, log_events |-> FALSE, enforce |-> FALSE,
                tick |-> t.current_tick]
    /\ LOG_EVENTS' = IF t.runs = <<>> THEN LOG_EVENTS ELSE FALSE
    /\ admitted' = IF t.raised = "" THEN admitted \o m.refs ELSE admitted
    /\ first_tick' =
          [k \in 1..Len(m.heap) |->
             IF k \in DOMAIN first_tick /\ first_tick[k] > 0 THEN first_tick[k]
             ELSE IF t.raised = "" /\ k \in Range(m.refs) THEN t.current_tick
             ELSE 0]
    /\ completed' = IF t.raised = ""
                    THEN completed \o t.stages[Len(stages)].output_buffer
                    ELSE completed
    /\ UNCHANGED <<logfile, samples, pctl, result,
                   last_store_processed, table>>

Tick(m) ==
    /\ CanTick
    /\ \E draws \in ChainDraws(Len(stages), stages, m.refs, m.heap) :
          TickApply(m, ChainTick(stages, current_tick, m.refs, draws, m.heap))

\* scenario control: stage.slowdown_factor = s, between ticks
SetSlowdown(i, s) ==
    /\ CanTick
    /\ call.op # "set_slowdown"
    /\ stages[i].slowdown_factor # s
    /\ stages' = [stages EXCEPT ![i].slowdown_factor = s]
    /\ call' = [NoCall EXCEPT !.op = "set_slowdown"]
    /\ UNCHANGED <<current_tick, events, LOG_EVENTS, logfile, admitted,
                   first_tick, completed, samples, pctl, result,
                   last_store_processed, table>>

Next ==
    \/ \E items \in IncomingLists(events, TRUE) :
         Tick(Materialize(items, events, <<>>))
    \/ \E i \in 1..Len(stages), s \in Slowdowns : SetSlowdown(i, s)

Spec == Init /\ [][Next]_vars

(***************************************************************************)
(* A driver that calls run_single_tick on one stage, as run_simulator.py   *)
(* does on the stage of create_ingest_stage.                               *)
(***************************************************************************)
InitStage ==
    /\ \E c \in 1..MaxCapacity : stages = <<Stage("ingest", c, 1, 0)>>
    /\ InitRest

\* run_single_tick(stage, events, log_events=, enforce_queue_invariant=):
\* m is the incoming list with its fresh events created, r what the call leaves
RunTickApply(m, log_events, enforce, r) ==
    /\ stages' = <<r.stage>>
    /\ events' = m.heap
    /\ LOG_EVENTS' = r.flag
    /\ logfile' = logfile \o r.logs
    /\ call' = [op |-> "run_single_tick", incoming |-> m.refs,
                raised |-> r.raised,
                runs |-> <<RunRecord(stages[1], m.refs, r)>>,
                log_events |-> log_events, enforce |-> enforce, tick |-> 0]
    /\ first_tick' = [k \in 1..Len(m.heap) |-> 0]
    /\ UNCHANGED <<current_tick, admitted, completed, samples, pctl, result,
                   last_store_processed, table>>

RunTick(m, log_events, enforce) ==
    /\ CanTick
    /\ \E draws \in DrawChoices(stages[1], m.refs, m.heap) :
          RunTickApply(m, log_events, enforce,
                       run_single_tick(stages[1], m.refs, log_events, enforce,
                                       0, draws, m.heap))

NextStage ==
    \/ \E items \in IncomingLists(events, FALSE),
          log_events \in BOOLEAN, enforce \in BOOLEAN :
         RunTick(Materialize(items, events, <<>>), log_events, enforce)
    \/ \E s \in Slowdowns : SetSlowdown(1, s)

SpecStage == InitStage /\ [][NextStage]_vars

(***************************************************************************)
(* The same scenario run twice, on two stages built alike: stages[1] with  *)
(* log_events=True, stages[2] with log_events=False, given the same        *)
(* events, the same slowdown changes and the same latency draws.           *)
(***************************************************************************)
InitLog ==
    /\ \E c \in 1..MaxCapacity :
         stages = <<Stage("ingest", c, 0, 1), Stage("ingest", c, 0, 1)>>
    /\ InitRest

\* r1 is what the call with log_events=True leaves of stages[1], r2 what the
\* call with log_events=False leaves of stages[2]
RunBothApply(m, enforce, r1, r2) ==
    /\ stages' = <<r1.stage, r2.stage>>
    /\ events' = m.heap
    /\ LOG_EVENTS' = r2.flag
    /\ logfile' = logfile \o r1.logs \o r2.logs
    /\ call' = [op |-> "run_both", incoming |-> m.refs,
                raised |-> IF r1.raised # "" THEN r1.raised ELSE r2.raised,
                runs |-> <<RunRecord(stages[1], m.refs, r1),
                           RunRecord(stages[2], m.refs, r2)>>,
                log_events |-> FALSE, enforce |-> enforce, tick |-> 0]
    /\ first_tick' = [k \in 1..Len(m.heap) |-> 0]
    /\ UNCHANGED <<current_tick, admitted, completed, samples, pctl, result,
                   last_store_processed, table>>

RunBoth(m, enforce) ==
    /\ CanTick
    /\ \E draws \in DrawChoices(stages[1], m.refs, m.heap) :
          RunBothApply(m, enforce,
                       run_single_tick(stages[1], m.refs, TRUE, enforce, 0,
                                       draws, m.heap),
                       run_single_tick(stages[2], m.refs, FALSE, enforce, 0,
                                       draws, m.heap))

SetSlowdownBoth(s) ==
    /\ CanTick
    /\ call.op # "set_slowdown"
    /\ stages[1].slowdown_factor # s
    /\ stages' = [i \in 1..Len(stages) |-> [stages[i] EXCEPT !.slowdown_factor = s]]
    /\ call' = [NoCall EXCEPT !.op = "set_slowdown"]
    /\ UNCHANGED <<current_tick, events, LOG_EVENTS, logfile, admitted,
                   first_tick, completed, samples, pctl, result,
                   last_store_processed, table>>

NextLog ==
    \/ \E items \in IncomingLists(events, FALSE), enforce \in BOOLEAN :
         RunBoth(Materialize(items, events, <<>>), enforce)
    \/ \E s \in Slowdowns : SetSlowdownBoth(s)

SpecLog == InitLog /\ [][NextLog]_vars

(***************************************************************************)
(* A caller of compute_percentile with a list of samples of its own.       *)
(***************************************************************************)
InitPct ==
    /\ stages = <<Stage("ingest", 1, 1, 0)>>
    /\ samples \in SeqsUpTo(0..MaxVal, MaxLen)
    /\ InitCore

CallPercentile(p) ==
    LET r == compute_percentile(samples, p)
    IN  /\ samples' = r.values
        /\ pctl' = p
        /\ result' = r.result
        /\ call' = [NoCall EXCEPT !.op = "compute_percentile", !.incoming = samples]
        /\ UNCHANGED <<stages, current_tick, events, LOG_EVENTS, logfile,
                       admitted, first_tick, completed, last_store_processed,
                       table>>

NextPct == \E p \in Percentiles : CallPercentile(p)

SpecPct == InitPct /\ [][NextPct]_vars

(***************************************************************************)
(* run_live_simulation.py: render_tick_table and the live loop.  The table *)
(* is modelled by what it reads and passes to callees, by the SLO rows it  *)
(* prints and by the attribute it keeps on the chain.                      *)
(***************************************************************************)
MaxLiveTicks == 5   \* ticks of the live loop

\* a breakdown that empties the queue while it counts
SignalCountsConsuming(stage, heap) ==
    [counts |-> [t \in SIGNAL_TYPE_DESCRIPTIONS |->
                   Cardinality({k \in 1..Len(stage.queue) :
                                  heap[stage.queue[k]].signal_type = t})],
     queue |-> <<>>]

\* lines 109-118: Counter(e.signal_type for e in stage.queue), and the queue
\* as the iteration leaves it
SignalCounts(stage, heap) ==
    [counts |-> [t \in SIGNAL_TYPE_DESCRIPTIONS |->
                   Cardinality({k \in 1..Len(stage.queue) :
                                  heap[stage.queue[k]].signal_type = t})],
     queue |-> stage.queue]

\* lines 75-118: the rows of one stage; its lists are handed to
\* compute_percentile and its queue is iterated
ReadStage(stage, heap) ==
    [stage EXCEPT
       !.metrics.latencies_ms =
           compute_percentile(@, [num |-> 1, den |-> 2]).values,
       !.queue = SignalCounts(stage, heap).queue]

\* line 129: next(s for s in stages if s.name == "store")
HasStore(stgs) == \E i \in 1..Len(stgs) : stgs[i].name = "store"

StoreIndex(stgs) ==
    CHOOSE i \in 1..Len(stgs) :
        /\ stgs[i].name = "store"
        /\ \A j \in 1..(i - 1) : stgs[j].name # "store"

\* lines 131-137: SLO 1, end-to-end p95 processing time < 3 ticks
E2ESlo(store_stage) ==
    IF store_stage.metrics.e2e_processing_times = <<>> THEN "-"
    ELSE IF compute_percentile(store_stage.metrics.e2e_processing_times,
                               [num |-> 95, den |-> 100]).result < 3
    THEN "PASS" ELSE "FAIL"

\* lines 142-144: processed since the last table
CurrentThroughput(store_stage, last) ==
    store_stage.metrics.processed - (IF last = -1 THEN 0 ELSE last)

\* line 147: SLO 2, store throughput >= 40 events per tick
ThroughputSlo(current_throughput) ==
    IF current_throughput >= 40 THEN "PASS" ELSE "FAIL"

\* line 133: the store stage's end-to-end list is handed to compute_percentile
ReadStore(store_stage) ==
    [store_stage EXCEPT
       !.metrics.e2e_processing_times =
           IF @ = <<>> THEN @
           ELSE compute_percentile(@, [num |-> 95, den |-> 100]).values]

\* lines 128-148 on the stages as the rows above left them, k the index of
\* the store stage
SloRows(stgs, k, store_stage, last) ==
    [raised |-> "", stages |-> [stgs EXCEPT ![k] = ReadStore(store_stage)],
     last |-> store_stage.metrics.processed,
     table |-> [e2e |-> E2ESlo(store_stage),
                throughput |->
                    ThroughputSlo(CurrentThroughput(store_stage, last))]]

\* render_tick_table(pipeline): values[3] needs four stages (line 66), next()
\* needs a stage named "store" (line 129)
render_tick_table(stgs, heap, last) ==
    IF Len(stgs) < 4
    THEN [raised |-> "IndexError", stages |-> stgs, last |-> last,
          table |-> NoTable]
    ELSE IF ~HasStore(stgs)
    THEN [raised |-> "StopIteration",
          stages |-> [i \in 1..Len(stgs) |-> ReadStage(stgs[i], heap)],
          last |-> last, table |-> NoTable]
    ELSE SloRows([i \in 1..Len(stgs) |-> ReadStage(stgs[i], heap)],
                 StoreIndex(stgs), ReadStage(stgs[StoreIndex(stgs)], heap),
                 last)

\* create_pipeline(): ingest, normalize, enrich, store with capacities
\* 100, 80, 50, 60 scaled by 1/20 (2.5 rounded up), latencies without jitter
create_pipeline ==
    <<Stage("ingest", 5, 1, 0), Stage("normalize", 4, 2, 0),
      Stage("enrich", 3, 3, 0), Stage("store", 3, 1, 0)>>

InitLive ==
    /\ stages = create_pipeline
    /\ InitRest

\* the lists of the live loop: fresh events of generate_events, which draws
\* from the known signal types (two of them here), or one event object
\* created before
LiveTypes == {"sales_activity", "market_signal"}

LiveLists(heap) ==
    {items \in SeqsUpTo({[id |-> 0, signal_type |-> t] : t \in LiveTypes},
                        MaxIncoming) :
        Len(heap) + Fresh(items) <= MaxEvents}
    \cup {<<x>> : x \in OldItems(heap)}

\* lines 195-196: pipeline.tick(incoming_events)
LiveTick(m) ==
    /\ current_tick < MaxLiveTicks
    /\ \E draws \in ChainDraws(Len(stages), stages, m.refs, m.heap) :
          TickApply(m, ChainTick(stages, current_tick, m.refs, draws, m.heap))

\* lines 190-193: the stage named "enrich" is slowed down to 2.5
Degrade ==
    /\ current_tick < MaxLiveTicks
    /\ \E i \in 1..Len(stages) :
          /\ stages[i].name = "enrich"
          /\ stages[i].slowdown_factor # [num |-> 5, den |-> 2]
    /\ stages' = [i \in 1..Len(stages) |->
                    IF stages[i].name = "enrich"
                    THEN [stages[i] EXCEPT
                            !.slowdown_factor = [num |-> 5, den |-> 2]]
                    ELSE stages[i]]
    /\ call' = [NoCall EXCEPT !.op = "set_slowdown"]
    /\ UNCHANGED <<current_tick, events, LOG_EVENTS, logfile, admitted,
                   first_tick, completed, samples, pctl, result,
                   last_store_processed, table>>

\* line 198: render_tick_table(pipeline), after a tick
RenderApply(r) ==
    /\ stages' = r.stages
    /\ last_store_processed' = r.last
    /\ table' = r.table
    /\ call' = [NoCall EXCEPT !.op = "render", !.raised = r.raised]
    /\ UNCHANGED <<current_tick, events, LOG_EVENTS, logfile, admitted,
                   first_tick, completed, samples, pctl, result>>

Render ==
    /\ call.op = "tick"
    /\ RenderApply(render_tick_table(stages, events, last_store_processed))

NextLive ==
    \/ \E items \in LiveLists(events) : LiveTick(Materialize(items, events, <<>>))
    \/ Degrade
    \/ Render

SpecLive == InitLive /\ [][NextLive]_vars

(***************************************************************************)
(* The live loop run until the pipeline is empty: ticks with events while  *)
(* current_tick < MaxTicks, then ticks with an empty list.  The loop keeps *)
(* calling pipeline.tick, which is the fairness condition.                 *)
(***************************************************************************)
MaxDrainTicks == 12   \* ticks of a run, the ticks with an empty list included

\* create_pipeline's stages, and the same chain with an enrich stage so
\* narrow that the slowdown leaves it no capacity (int(2 / 2.5) = 0)
DrainPipelines ==
    { create_pipeline,
      <<Stage("ingest", 5, 1, 0), Stage("normalize", 4, 2, 0),
        Stage("enrich", 2, 3, 0), Stage("store", 3, 1, 0)>> }

InitDrain ==
    /\ stages \in DrainPipelines
    /\ InitRest

\* pipeline.tick(generate_events(n)) with n > 0, or with an event passed again
FeedTick(m) ==
    /\ current_tick < MaxTicks
    /\ m.refs # <<>>
    /\ \E draws \in ChainDraws(Len(stages), stages, m.refs, m.heap) :
          TickApply(m, ChainTick(stages, current_tick, m.refs, draws, m.heap))

\* pipeline.tick([])
EmptyTickWith(m) ==
    \E draws \in ChainDraws(Len(stages), stages, m.refs, m.heap) :
        TickApply(m, ChainTick(stages, current_tick, m.refs, draws, m.heap))

EmptyTick ==
    /\ current_tick < MaxDrainTicks
    /\ EmptyTickWith([heap |-> events, refs |-> <<>>])

\* lines 190-193, while events are still fed
DegradeEarly ==
    /\ current_tick < MaxTicks
    /\ Degrade

NextDrain ==
    \/ \E items \in LiveLists(events) : FeedTick(Materialize(items, events, <<>>))
    \/ EmptyTick
    \/ DegradeEarly

\* a step in which the loop has called pipeline.tick: the counter advances
\* (pipeline_chain.py line 22); a call is possible while EmptyTick is
TickCalled ==
    /\ current_tick < MaxDrainTicks
    /\ current_tick' = current_tick + 1

SpecDrain == InitDrain /\ [][NextDrain]_vars /\ WF_current_tick(TickCalled)

(***************************************************************************)
(* Two runs of run_live_simulation's loop side by side: the same incoming  *)
(* events each tick, the second chain with one stage of another capacity   *)
(* or slowed down.  stages holds the first chain followed by the second.   *)
(***************************************************************************)
Half == Len(stages) \div 2

ChainA == SubSeq(stages, 1, Half)

ChainB == SubSeq(stages, Half + 1, Len(stages))

\* stage k is configured differently in the two runs
Differ(k) ==
    \/ stages[k].capacity_per_tick # stages[Half + k].capacity_per_tick
    \/ stages[k].slowdown_factor # stages[Half + k].slowdown_factor

TwinPipelines ==
    { <<Stage("ingest", 2, 1, 0), Stage("enrich", 2, 1, 0), Stage("store", 2, 1, 0)>>,
      <<Stage("ingest", 2, 1, 0), Stage("enrich", 1, 1, 0), Stage("store", 2, 1, 0)>> }

InitTwin ==
    /\ \E base \in TwinPipelines, j \in 1..3, c \in 1..MaxCapacity :
          stages = base \o [base EXCEPT ![j].capacity_per_tick = c]
    /\ InitRest

\* pipeline.tick(incoming_events) in both runs: tA and tB are what
\* StageChain.tick leaves in the first and in the second
TwinApply(m, tA, tB) ==
    /\ stages' = tA.stages \o tB.stages
    /\ current_tick' = tA.current_tick
    /\ events' = tA.events
    /\ call' = [op |-> "tick", incoming |-> m.refs, raised |-> tA.raised,
                runs |-> tA.runs \o tB.runs, log_events |-> FALSE,
                enforce |-> FALSE, tick |-> tA.current_tick]
    /\ LOG_EVENTS' = IF tA.runs = <<>> THEN LOG_EVENTS ELSE FALSE
    /\ UNCHANGED <<logfile, admitted, first_tick, completed, samples, pctl,
                   result, last_store_processed, table>>

TwinDraws(m, a, b) ==
    \E dA \in ChainDraws(Len(a), a, m.refs, m.heap),
       dB \in ChainDraws(Len(b), b, m.refs, m.heap) :
          TwinApply(m, ChainTick(a, current_tick, m.refs, dA, m.heap),
                    ChainTick(b, current_tick, m.refs, dB, m.heap))

TwinTick(m) ==
    /\ current_tick < MaxTicks + 1
    /\ TwinDraws(m, ChainA, ChainB)

\* the second run slows stage j down between ticks, the first does not; no
\* other stage differs between the runs
SlowTwin(j, s) ==
    /\ current_tick < MaxTicks + 1
    /\ s # One
    /\ stages[Half + j].slowdown_factor = One
    /\ \A k \in 1..Half : k # j => ~Differ(k)
    /\ stages' = [stages EXCEPT ![Half + j].slowdown_factor = s]
    /\ call' = [NoCall EXCEPT !.op = "set_slowdown"]
    /\ UNCHANGED <<current_tick, events, LOG_EVENTS, logfile, admitted,
                   first_tick, completed, samples, pctl, result,
                   last_store_processed, table>>

NextTwin ==
    \/ \E items \in IncomingLists(events, TRUE) :
         TwinTick(Materialize(items, events, <<>>))
    \/ \E j \in 1..Half, s \in Slowdowns : SlowTwin(j, s)

SpecTwin == InitTwin /\ [][NextTwin]_vars

(***************************************************************************)
(* The claims.                                                             *)
(***************************************************************************)
N == Len(stages)

TickDone == call.op = "tick" /\ call.raised = ""

\* the list holds an event whose signal_type is outside the known set
HasUnknownType(list, heap) ==
    \E k \in 1..Len(list) :
        heap[list[k]].signal_type \notin
            {"sales_activity", "field_interaction", "market_signal"}

\* C1: one-tick propagation delay.  In every chain tick the input given to
\* stage i+1 is exactly stage i's output_buffer as the previous tick left it;
\* and an event is in the queue or the input of a stage after the first only
\* at a chain tick later than the tick of its first admission to stage 1.
C1_InputIsPreviousOutput ==
    (call'.op = "tick" /\ call'.raised = "") =>
        \A i \in 1..(N - 1) : call'.runs[i + 1].inputs = stages[i].output_buffer

C1_NotBeforeNextTick ==
    \A i \in 2..N :
        \A e \in Range(stages[i].queue)
                 \cup (IF TickDone THEN Range(call.runs[i].inputs) ELSE {}) :
            first_tick[e] > 0 /\ first_tick[e] < current_tick

C1_PropagationDelay ==
    [][C1_InputIsPreviousOutput]_vars /\ []C1_NotBeforeNextTick

\* stage 1 drained, within the tick, an event admitted in that same tick,
\* while stage 2 was given what stage 1 had drained the tick before
C1_Witness ==
    /\ TickDone
    /\ call.runs[2].inputs # <<>>
    /\ \E e \in Range(stages[1].output_buffer) : first_tick[e] = current_tick

\* C2: queue conservation.  After any run_single_tick with validly-typed
\* events, len(queue) = len(queue) before admission + |incoming| - drained.
C2_QueueConservation ==
    (call.op = "run_single_tick" /\ ~HasUnknownType(call.incoming, events)) =>
        Len(stages[1].queue) =
            call.runs[1].before + Len(call.incoming) - call.runs[1].processed

\* a call on a stage with a backlog and a slowdown that admits and drains
C2_Witness ==
    /\ call.op = "run_single_tick"
    /\ call.runs[1].before > 0
    /\ Len(call.incoming) = 2
    /\ call.runs[1].processed > 0
    /\ stages[1].queue # <<>>
    /\ stages[1].slowdown_factor # One

\* C3: capacity bound.  In every tick of every stage of a chain, drained <=
\* floor(capacity_per_tick / slowdown_factor) with the slowdown in force at
\* that tick (drained * slowdown <= capacity, drained being an integer); and
\* capacity 50 with slowdown 2.5 gives an effective capacity of 20.
C3_CapacityBound ==
    /\ call.op = "tick" =>
          \A i \in DOMAIN call.runs :
              call.runs[i].processed * stages[i].slowdown_factor.num
                  <= stages[i].capacity_per_tick * stages[i].slowdown_factor.den
    /\ effective_capacity([capacity_per_tick |-> 50,
                           slowdown_factor |-> [num |-> 5, den |-> 2]]) = 20

\* a stage slowed down between ticks drains its floored capacity and keeps a
\* backlog: capacity 2 at slowdown 1.5 drains 1
C3_Witness ==
    /\ TickDone
    /\ \E i \in 1..N :
          /\ stages[i].slowdown_factor = [num |-> 3, den |-> 2]
          /\ stages[i].capacity_per_tick = 2
          /\ call.runs[i].processed = 1
          /\ stages[i].queue # <<>>
          /\ stages[i].metrics.processed > 1

\* C4: validation gate.  A run_single_tick whose incoming list holds an event
\* of unknown signal_type, at any position, fails and leaves the stage (queue,
\* output_buffer, metrics) exactly as it was.
C4_ValidationGate ==
    [][(call'.op = "run_single_tick" /\ HasUnknownType(call'.incoming, events'))
          => (call'.raised = "Unknown signal type" /\ stages' = stages)]_vars

\* a rejected list whose first event is valid and second is not, on a stage
\* that holds a queue and metrics from an earlier tick
C4_Witness ==
    /\ call.op = "run_single_tick"
    /\ call.raised = "Unknown signal type"
    /\ Len(call.incoming) = 2
    /\ events[call.incoming[1]].signal_type = "sales_activity"
    /\ events[call.incoming[2]].signal_type = "invalid_signal"
    /\ stages[1].queue # <<>>
    /\ stages[1].metrics.queue_depths # <<>>

\* C5: the ingestion stamp is written once.  A chain tick stamps an incoming
\* event whose ingestion_tick is 0 with the new current_tick and leaves every
\* other stamp as it was.
C5_StampedOnce ==
    [][call'.op = "tick" =>
         \A k \in DOMAIN events' :
            LET old == IF k \in DOMAIN events THEN events[k].ingestion_tick ELSE 0
            IN  events'[k].ingestion_tick =
                    IF k \in Range(call'.incoming) /\ old = 0
                    THEN current_tick' ELSE old]_vars

\* C6: the chain neither drops nor duplicates.  Every event is, as many times
\* as it was admitted by a chain tick, in the queue of a stage, in the
\* output_buffer of a non-terminal stage or among the events the terminal
\* stage drained; so admitted = queued + awaiting hand-off + processed by the
\* terminal stage.
Where(k) ==
    UNION {{<<"queue", i, j>> :
              j \in {x \in 1..Len(stages[i].queue) : stages[i].queue[x] = k}}
           \cup {<<"output_buffer", i, j>> :
              j \in {x \in 1..Len(stages[i].output_buffer) :
                        i < N /\ stages[i].output_buffer[x] = k}} : i \in 1..N}
    \cup {<<"drained", N, j>> : j \in {x \in 1..Len(completed) : completed[x] = k}}

C6_NoDropNoDuplicate ==
    /\ \A k \in DOMAIN events : Cardinality(Where(k)) = Count(admitted, k)
    /\ Len(admitted) =
          Cardinality(UNION {Where(k) : k \in DOMAIN events})
    /\ Len(completed) = stages[N].metrics.processed

\* events in a queue, in a buffer awaiting hand-off and drained by the
\* terminal stage, after a slowdown change, a rejected tick and a second
\* admission of the same event
C6_Witness ==
    /\ completed # <<>>
    /\ \E i \in 1..N : stages[i].queue # <<>>
    /\ \E i \in 1..(N - 1) : stages[i].output_buffer # <<>>
    /\ \E i \in 1..N : stages[i].slowdown_factor # One
    /\ \E k \in DOMAIN events : Count(admitted, k) = 2
    /\ \E i \in 1..N : Len(stages[i].metrics.queue_depths) < current_tick

E2EAppended(i) ==
    IF stages'[i].name = "store"
    THEN [j \in 1..Len(stages'[i].output_buffer) |->
            current_tick' - events'[stages'[i].output_buffer[j]].ingestion_tick]
    ELSE <<>>

C8_MonotonicProcessed ==
    [][\A i \in 1..N :
         stages'[i].metrics.processed = stages[i].metrics.processed +
            (IF call'.op = "run_single_tick"
                /\ ~HasUnknownType(call'.incoming, events')
             THEN Len(stages[i].queue) + Len(call'.incoming) - Len(stages'[i].queue)
             ELSE 0)]_vars

\* a later tick added its drained events to a count that was already positive
C8_Witness ==
    /\ call.op = "run_single_tick"
    /\ call.runs[1].processed = 1
    /\ stages[1].metrics.processed = 3

\* C9: logging neutrality.  Two stages built alike and given the same calls,
\* slowdown changes and latency draws, one with log_events=True and one with
\* log_events=False, agree after every call on processed, queue,
\* latencies_ms, queue_depths and output_buffer.
Core(stage) ==
    [processed |-> stage.metrics.processed, queue |-> stage.queue,
     latencies_ms |-> stage.metrics.latencies_ms,
     queue_depths |-> stage.metrics.queue_depths,
     output_buffer |-> stage.output_buffer]

C9_LoggingNeutral == Core(stages[1]) = Core(stages[2])

\* the logged run wrote records, and both runs drained events with differing
\* latency draws and kept a backlog
C9_Witness ==
    /\ call.op = "run_both"
    /\ logfile # <<>>
    /\ LOG_EVENTS = FALSE
    /\ stages[2].queue # <<>>
    /\ {0, 1} \subseteq Range(stages[2].metrics.latencies_ms)

\* C10: the percentile is nearest-rank.  compute_percentile returns 0 on an
\* empty list and otherwise the sample of rank min(floor(len * p), len - 1)
\* in ascending order (at most that many samples are smaller, more than that
\* many are not larger); a one-element list returns its element;
\* [1,2,3,4,5] at p = 0.5 gives 3; the caller's list is left as it was.
C10_NearestRank ==
    /\ call.op = "compute_percentile" =>
          /\ samples = call.incoming
          /\ samples = <<>> => result = 0
          /\ Len(samples) = 1 => result = samples[1]
          /\ samples # <<>> =>
                LET n   == Len(samples)
                    idx == Min((n * pctl.num) \div pctl.den, n - 1)
                IN  /\ result \in Range(samples)
                    /\ Cardinality({k \in 1..n : samples[k] < result}) <= idx
                    /\ Cardinality({k \in 1..n : samples[k] <= result}) > idx
    /\ compute_percentile(<<1, 2, 3, 4, 5>>, [num |-> 1, den |-> 2]).result = 3
    /\ \A p \in Percentiles : compute_percentile(<<>>, p).result = 0

\* an unsorted three-element list at p = 0.5
C10_Witness ==
    /\ call.op = "compute_percentile"
    /\ Len(samples) = 3
    /\ samples[1] > samples[2]
    /\ samples[2] < samples[3]
    /\ pctl = [num |-> 1, den |-> 2]
    /\ result = samples[3]

\* C11: single tick on a stage with an empty queue.  With slowdown_factor 1.0
\* and capacity C, a run_single_tick with n validly-typed events raises
\* nothing (the queue check included), processes min(n, C) events, leaves
\* max(0, n - C) queued and records min(n, C) latency samples; on a new stage
\* these are the totals.  For C = 100 the expressions give processed 100 and
\* queue 20 at n = 120, and processed 10 at n = 10.
FreshProcessed(n, C) == IF n <= C THEN n ELSE C

FreshQueued(n, C) == IF n > C THEN n - C ELSE 0

C11_FreshStageTick ==
    [][/\ (/\ call'.op = "run_single_tick"
           /\ stages[1].queue = <<>>
           /\ stages[1].slowdown_factor = One
           /\ ~HasUnknownType(call'.incoming, events'))
          => LET n == Len(call'.incoming)
                 C == stages[1].capacity_per_tick
             IN  /\ call'.raised = ""
                 /\ stages'[1].metrics.processed =
                        stages[1].metrics.processed + FreshProcessed(n, C)
                 /\ Len(stages'[1].queue) = FreshQueued(n, C)
                 /\ Len(stages'[1].metrics.latencies_ms) =
                        Len(stages[1].metrics.latencies_ms) + FreshProcessed(n, C)
                 /\ stages[1].metrics.queue_depths = <<>> =>
                        /\ stages'[1].metrics.processed = FreshProcessed(n, C)
                        /\ Len(stages'[1].metrics.latencies_ms) =
                               FreshProcessed(n, C)
       /\ FreshProcessed(120, 100) = 100
       /\ FreshQueued(120, 100) = 20
       /\ FreshProcessed(10, 100) = 10]_vars

\* a new stage of capacity 1 given two events with the queue check on
C11_Witness ==
    /\ call.op = "run_single_tick"
    /\ call.enforce
    /\ call.raised = ""
    /\ Len(call.incoming) = 2
    /\ stages[1].capacity_per_tick = 1
    /\ stages[1].slowdown_factor = One
    /\ Len(stages[1].metrics.queue_depths) = 1
    /\ stages[1].metrics.processed = 1
    /\ Len(stages[1].queue) = 1

\* C12: queue-depth sampling.  Every successful run_single_tick appends
\* exactly one value to queue_depths, the queue length before the call plus
\* the number of incoming events; and in a chain every stage has exactly
\* current_tick samples.
C12_OneSamplePerTick ==
    (call'.op = "tick" /\ call'.raised = "") =>
        \A i \in 1..N :
            stages'[i].metrics.queue_depths =
                Append(stages[i].metrics.queue_depths,
                       Len(stages[i].queue) + Len(call'.runs[i].inputs))

C12_SamplesEqualTicks ==
    \A i \in 1..N : Len(stages[i].metrics.queue_depths) = current_tick

C12_QueueDepthSampling ==
    [][C12_OneSamplePerTick]_vars /\ []C12_SamplesEqualTicks

\* C13: reporting is read-only.  render_tick_table between ticks, whatever
\* the SLO rows say, leaves every stage's queue, output_buffer, metrics and
\* slowdown_factor, the events and the chain's current_tick as they were;
\* the ticks read nothing the table writes, so a run with a table after each
\* tick passes through the same core states as one without.
C13_ReportingReadOnly ==
    [][call'.op = "render" =>
          /\ Len(stages') = Len(stages)
          /\ \A i \in 1..N :
                /\ stages'[i].queue = stages[i].queue
                /\ stages'[i].output_buffer = stages[i].output_buffer
                /\ stages'[i].metrics = stages[i].metrics
                /\ stages'[i].slowdown_factor = stages[i].slowdown_factor
          /\ current_tick' = current_tick
          /\ events' = events]_vars

\* a table printed over a backlog, with one SLO passing and one failing
C13_Witness ==
    /\ call.op = "render"
    /\ table.e2e = "PASS"
    /\ table.throughput = "FAIL"
    /\ last_store_processed > 0
    /\ \E i \in 1..N : stages[i].queue # <<>>
    /\ \E i \in 1..N : stages[i].slowdown_factor # One

\* C14: greedy drain.  In every successful tick each stage drains exactly
\* min(queue length after admission, floor(capacity_per_tick /
\* slowdown_factor)) events; it leaves events queued only when it has used
\* its whole effective capacity.
FloorCapacity(stage) ==
    CHOOSE k \in 0..stage.capacity_per_tick :
        /\ k * stage.slowdown_factor.num
              <= stage.capacity_per_tick * stage.slowdown_factor.den
        /\ (k + 1) * stage.slowdown_factor.num
              > stage.capacity_per_tick * stage.slowdown_factor.den

C14_GreedyDrain ==
    TickDone =>
        \A i \in 1..N :
            LET after == call.runs[i].before + Len(call.runs[i].inputs)
                floor == FloorCapacity(stages[i])
            IN  /\ call.runs[i].processed =
                      (IF after <= floor THEN after ELSE floor)
                /\ stages[i].queue # <<>> => call.runs[i].processed = floor

\* in one tick a slowed-down stage used its whole floored capacity and kept a
\* backlog while another stage emptied its queue below its capacity
C14_Witness ==
    /\ TickDone
    /\ \E i \in 1..N :
          /\ stages[i].slowdown_factor # One
          /\ call.runs[i].processed > 0
          /\ stages[i].queue # <<>>
    /\ \E i \in 1..N :
          /\ call.runs[i].processed > 0
          /\ call.runs[i].processed < stages[i].capacity_per_tick
          /\ stages[i].queue = <<>>

\* C15: FIFO order.  In every successful tick each stage drains the front of
\* its queue in arrival order: the queue before the tick followed by the
\* inputs equals what it drained (its output_buffer) followed by what stays
\* queued.  Hence what a stage has drained is always a prefix of what it has
\* admitted, and along the chain the events drained by the terminal stage,
\* then those waiting at each stage from the last to the first, are the
\* events admitted to the first stage in their order of admission.
InFlight(i) ==
    IF i = N THEN stages[i].queue
    ELSE stages[i].output_buffer \o stages[i].queue

RECURSIVE Downstream(_)
Downstream(i) ==
    IF i > N THEN <<>> ELSE Downstream(i + 1) \o InFlight(i)

C15_StageFifoStep ==
    (call'.op = "tick" /\ call'.raised = "") =>
        \A i \in 1..N :
            stages[i].queue \o call'.runs[i].inputs =
                stages'[i].output_buffer \o stages'[i].queue

C15_ChainOrder == completed \o Downstream(1) = admitted

C15_FifoOrder == [][C15_StageFifoStep]_vars /\ []C15_ChainOrder

\* two events of different signal types drained by the terminal stage in
\* their order of admission, while a stage that met a backlog and new inputs in one tick
\* still holds events
C15_Witness ==
    /\ TickDone
    /\ Len(completed) >= 2
    /\ completed[1] # completed[2]
    /\ events[completed[1]].signal_type # events[completed[2]].signal_type
    /\ \E i \in 1..N :
          /\ call.runs[i].before > 0
          /\ call.runs[i].inputs # <<>>
          /\ call.runs[i].processed > 0
          /\ stages[i].queue # <<>>

\* C16: the output buffer holds the current tick's output only.  After every
\* run_single_tick that passes validation, output_buffer is exactly the
\* events the call took from the queue, in the order it took them: the first
\* events of (queue before the call, then the incoming events), as many as
\* metrics.processed grew by; it is empty when nothing was drained.
C16_OutputIsThisTick ==
    [][(call'.op = "run_single_tick"
          /\ ~HasUnknownType(call'.incoming, events'))
         => LET drained == stages'[1].metrics.processed
                              - stages[1].metrics.processed
            IN  /\ stages'[1].output_buffer =
                      SubSeq(stages[1].queue \o call'.incoming, 1, drained)
                /\ drained = 0 => stages'[1].output_buffer = <<>>]_vars

\* a later call drained one event after an earlier call had drained others
C16_Witness ==
    /\ call.op = "run_single_tick"
    /\ call.raised = ""
    /\ call.runs[1].processed = 1
    /\ stages[1].metrics.processed >= 2
    /\ Len(stages[1].output_buffer) = 1

\* C17: the queue-length check of run_single_tick fails only when the
\* remaining queue length differs from (queue length after admission) -
\* (number drained); so with validly-typed events it never fails, whatever
\* the queue held before and whatever the slowdown_factor.
C17_QueueCheckSound ==
    (call.op = "run_single_tick" /\ ~HasUnknownType(call.incoming, events)) =>
        /\ call.raised = "Queue size mismatch" =>
              Len(stages[1].queue) #
                  (call.runs[1].before + Len(call.incoming))
                      - call.runs[1].processed
        /\ call.raised = ""

\* C18: end-to-end lower bound.  Every value in the terminal stage's
\* e2e_processing_times is at least N - 1 ticks; in the four-stage pipeline
\* every sample is >= 3 and the table never reports the check "E2E p95
\* processing time < 3" as passed.
C18_E2ELowerBound ==
    /\ \A j \in 1..Len(stages[N].metrics.e2e_processing_times) :
          stages[N].metrics.e2e_processing_times[j] >= N - 1
    /\ N = 4 => table.e2e # "PASS"

\* C19: eventual drain.  If from some tick on StageChain.tick is only called
\* with an empty list and every stage keeps an effective capacity of at
\* least 1, then eventually, and from then on, every queue and every
\* non-terminal output_buffer is empty and every event admitted has been
\* drained by the terminal stage as often as it was admitted.
Drained ==
    /\ \A i \in 1..N : stages[i].queue = <<>>
    /\ \A i \in 1..(N - 1) : stages[i].output_buffer = <<>>
    /\ \A k \in DOMAIN events : Count(completed, k) = Count(admitted, k)

FedStep == call'.op = "tick" /\ call'.incoming # <<>>

CapacityLeft == \A i \in 1..N : FloorCapacity(stages[i]) >= 1

C19_EventualDrain ==
    (<>[][~FedStep]_vars /\ <>[]CapacityLeft) => <>[]Drained

\* the pipeline is empty again after three admissions passed a slowed-down
\* stage, the last ticks having been called with an empty list
C19_Witness ==
    /\ Drained
    /\ call.op = "tick"
    /\ call.incoming = <<>>
    /\ Len(admitted) >= 3
    /\ \E i \in 1..N : stages[i].slowdown_factor # One

\* C20: one latency sample per processed event.  For every stage, at all
\* times, len(metrics.latencies_ms) = metrics.processed, every latency
\* sample is >= 0 and metrics.errors = 0.
C20_LatencyPerEvent ==
    \A i \in 1..N :
        /\ Len(stages[i].metrics.latencies_ms) = stages[i].metrics.processed
        /\ \A j \in 1..Len(stages[i].metrics.latencies_ms) :
              stages[i].metrics.latencies_ms[j] >= 0
        /\ stages[i].metrics.errors = 0

\* a stage whose jitter exceeds its base latency has processed events in two
\* ticks, with samples of 0 and of 1
C20_Witness ==
    /\ TickDone
    /\ \E i \in 1..N :
          /\ stages[i].jitter_ms > stages[i].base_latency_ms
          /\ stages[i].metrics.processed = 2
          /\ call.runs[i].processed = 1
          /\ {0, 1} \subseteq Range(stages[i].metrics.latencies_ms)

\* C21: no upstream effect of downstream degradation.  In two runs given the
\* same incoming events each tick and differing only in the capacity_per_tick
\* or slowdown_factor of one stage j, every stage before j has the same queue,
\* processed count, queue_depths and output_buffer in both runs after every
\* tick.
Upstream(i) == \A k \in 1..i : ~Differ(k)

SameCore(i) ==
    /\ stages[i].queue = stages[Half + i].queue
    /\ stages[i].metrics.processed = stages[Half + i].metrics.processed
    /\ stages[i].metrics.queue_depths = stages[Half + i].metrics.queue_depths
    /\ stages[i].output_buffer = stages[Half + i].output_buffer

RejectedTick == call'.op = "tick" /\ call'.raised = "Unknown signal type"

StampBefore(k) == IF k \in DOMAIN events THEN events[k].ingestion_tick ELSE 0

StagesKept ==
    /\ Len(stages') = Len(stages)
    /\ \A i \in 1..N :
          /\ stages'[i].queue = stages[i].queue
          /\ stages'[i].output_buffer = stages[i].output_buffer
          /\ stages'[i].metrics = stages[i].metrics

C22_RejectedTickChangesNothing ==
    [][RejectedTick =>
          /\ current_tick' = current_tick
          /\ \A k \in Range(call'.incoming) :
                events'[k].ingestion_tick = StampBefore(k)
          /\ StagesKept]_vars

====
